---------------------------- MODULE Spec2Model ----------------------------
(***************************************************************************)
(* Job lifecycle of TACCJobManager (src/src/taccjm/TACCJobManager.py):     *)
(* setup_job, submit_job, cancel_job, cleanup_job and save_job acting on   *)
(* one job record (the dict job_config the caller holds), on the remote    *)
(* jobs directory and on the scheduler, through _execute_command and SFTP. *)
(*                                                                         *)
(* A Python str is a sequence of tokens (a token stands for a run of       *)
(* characters holding neither a blank nor a newline, or for one blank, or  *)
(* for one newline); a Python dict is a function whose DOMAIN is its keys; *)
(* Python's None is the string "None".  job.json is taken to be well       *)
(* formed: it holds the keys the code reads without a test (name, appId,   *)
(* inputs, parameters, and an empty slurm mapping).                        *)
(***************************************************************************)
EXTENDS Integers, Sequences, FiniteSets, TLC

VARIABLES
    now,         \* time.time(), in whole seconds
    dirs,        \* the job directories that exist under jobs_dir
    files,       \* job directory -> content of its job_config.json
    job_config,  \* the job record the caller holds (mutated in place)
    last,        \* the last call: its inputs and its outcome
    commands,    \* the command registry: every command issued, in order
    reply,       \* the last call on the registry: its inputs and its outcome
    stats,       \* heartbeat: the global accumulator of get_jobs timings
    finished,    \* heartbeat: the timer's Event, set by cancel()
    thread       \* heartbeat: where RepeatingTimer.run is, and what it did

vars == <<now, dirs, files, job_config, last, commands, reply, stats,
          finished, thread>>

(* the heartbeat script's state *)
monitor == <<stats, finished, thread>>

(* what a call of the job manager leaves alone *)
registry == <<commands, reply>>

(* Bounds of the model *)
MaxTime == 2
MaxCommands == 2
MaxHeartbeats == 3

None == "None"

(* ------------------------------ Python values ------------------------- *)

Has(d, k) == k \in DOMAIN d
Put(d, k, v) == [x \in (DOMAIN d) \cup {k} |-> IF x = k THEN v ELSE d[x]]
Pop(d, k) == [x \in (DOMAIN d) \ {k} |-> d[x]]
EmptyDict == [x \in {} |-> <<>>]

(* datetime.fromtimestamp(t).strftime('%Y%m%d_%H%M%S') *)
strftime(t) == "19700101_00000" \o ToString(t)

(* What sbatch can write to stdout: nothing, a line with no newline, the  *)
(* line that ends in the job identifier, the failure sentinel, lines that  *)
(* end in a blank or are empty, and the same after a banner line.          *)
SbatchOutputs ==
    { <<>>,
      <<"101">>,
      <<"Submitted", " ", "101", "\n">>,
      <<"banner", "\n", "Submitted", " ", "101", "\n">>,
      <<"FAILED", "\n">>,
      <<"banner", "\n", "-->", " ", "FAILED", "\n">>,
      <<"\n">>,
      <<"Submitted", " ", "\n">>,
      <<"101", "\n", "\n">> }

(* str.split(sep) *)
RECURSIVE split(_, _)
split(s, sep) ==
    IF \A i \in 1..Len(s) : s[i] # sep THEN <<s>>
    ELSE LET i == CHOOSE j \in 1..Len(s) :
                      s[j] = sep /\ \A k \in 1..(j - 1) : s[k] # sep
         IN <<SubSeq(s, 1, i - 1)>> \o split(SubSeq(s, i + 1, Len(s)), sep)

(* the text of a str *)
RECURSIVE Join(_)
Join(s) == IF s = <<>> THEN "" ELSE Head(s) \o Join(Tail(s))

(* the key under which a job directory's record is saved *)
JobId(name, ts) == name \o "_" \o ts
JobDir(job_id) == "$SCRATCH/taccjm-jobs/" \o job_id

(* ------------------------------ the remote ----------------------------- *)

(* What the remote answers to one exec_command: exec_command itself raises *)
(* (exc), or the command runs and leaves stdout, stderr and an exit status *)
(* (which _execute_command never reads)                                    *)
Response(exc, out, err, status) ==
    [exc |-> exc, out |-> out, err |-> err, status |-> status]

SSHDown == Response(TRUE, <<>>, <<>>, 0)
Quiet == Response(FALSE, <<>>, <<>>, 0)
Complains == Response(FALSE, <<>>, <<"error">>, 1)

(* the answers a command that writes nothing to stdout can get *)
Plain == {SSHDown, Quiet, Complains}

(* a command sent through _execute_command: what it runs, and on what *)
Cmd(verb, arg) == [verb |-> verb, arg |-> arg]

ExecRaisesOnStderrOnly(resp) ==
    IF ~resp.exc /\ Len(resp.err) > 0 THEN "Exception" ELSE None

(* _execute_command: raises what exec_command raises, raises Exception(err) *)
(* when stderr is not empty, returns stdout otherwise                       *)
ExecRaises(resp) ==
    IF resp.exc THEN "SSHException"
    ELSE IF Len(resp.err) > 0 THEN "Exception"
    ELSE None

(* ------------------------------ json ----------------------------------- *)

(* A JSON document is the object's keys with each leaf as JSON text: null  *)
(* for None, the str between double quotes, a newline inside it escaped.   *)
JsonAtom(v) == IF v = None THEN <<"null">> ELSE <<"\"", v, "\"">>

RECURSIVE JsonEscape(_)
JsonEscape(s) ==
    IF s = <<>> THEN <<>>
    ELSE <<IF Head(s) = "\n" THEN "\\n" ELSE Head(s)>> \o JsonEscape(Tail(s))

RECURSIVE JsonUnescape(_)
JsonUnescape(s) ==
    IF s = <<>> THEN <<>>
    ELSE <<IF Head(s) = "\\n" THEN "\n" ELSE Head(s)>> \o JsonUnescape(Tail(s))

JsonStr(s) == <<"\"">> \o JsonEscape(s) \o <<"\"">>

(* json.dump(job_config, jc) *)
json_dump(jc) ==
    [name |-> JsonAtom(jc.name), job_id |-> JsonAtom(jc.job_id),
     job_dir |-> JsonAtom(jc.job_dir),
     ts |-> [k \in DOMAIN jc.ts |-> JsonAtom(jc.ts[k])],
     slurm |-> [k \in DOMAIN jc.slurm |-> JsonStr(jc.slurm[k])]]

ParseAtom(t) == IF t = <<"null">> THEN None ELSE t[2]
ParseStr(t) == JsonUnescape(SubSeq(t, 2, Len(t) - 1))

(* json.load(jc) *)
json_load(doc) ==
    [name |-> ParseAtom(doc.name), job_id |-> ParseAtom(doc.job_id),
     job_dir |-> ParseAtom(doc.job_dir),
     ts |-> [k \in DOMAIN doc.ts |-> ParseAtom(doc.ts[k])],
     slurm |-> [k \in DOMAIN doc.slurm |-> ParseStr(doc.slurm[k])]]

(* ------------------------------ save_job ------------------------------- *)

SftpModes == {"ok", "down", "partial"}

(* save_job without the dump_ts stamp *)
NotStamped(jc) == jc

(* the record with dump_ts stamped: line 300 runs before anything can fail *)
Stamped(jc) == [jc EXCEPT !.ts = Put(jc.ts, "dump_ts", strftime(now))]

(* The exception save_job re-raises, None when it returns.  sftp: "down"   *)
(* when open_sftp or sftp.open raises, "partial" when the write breaks off *)
(* after sftp.open(dest, 'w') has truncated the file.                      *)
SaveRaises(jc, ds, sftp) ==
    IF jc.job_dir = None THEN "TypeError"
    ELSE IF sftp = "down" THEN "SSHException"
    ELSE IF jc.job_dir \notin ds THEN "IOError"
    ELSE IF sftp = "partial" THEN "IOError"
    ELSE None

(* save_job writing the record as it was before the stamp *)
SaveFilesUnstamped(jc, ds, fs, sftp) ==
    IF jc.job_dir = None \/ sftp = "down" \/ jc.job_dir \notin ds THEN fs
    ELSE IF sftp = "partial" THEN Put(fs, jc.job_dir, {})
    ELSE Put(fs, jc.job_dir, {json_dump(jc)})

(* job_config.json files after save_job: a set holding the document, the   *)
(* empty set for a file that was truncated and not written out             *)
SaveFiles(jc, ds, fs, sftp) ==
    IF jc.job_dir = None \/ sftp = "down" \/ jc.job_dir \notin ds THEN fs
    ELSE IF sftp = "partial" THEN Put(fs, jc.job_dir, {})
    ELSE Put(fs, jc.job_dir, {json_dump(Stamped(jc))})

(* ------------------------------ errors, calls -------------------------- *)

Err(type, at) == [type |-> type, at |-> at]
NoError == Err(None, None)
Raised(e) == e.type # None

NoJob ==
    [name |-> None, job_id |-> None, job_dir |-> None,
     ts |-> [setup_ts |-> None, submit_ts |-> None,
             start_ts |-> None, end_ts |-> None],
     slurm |-> EmptyDict]

(* The record of one call.  raised: what the call raised (NoError when it  *)
(* returned); orig: the first error met inside the call; issued: the       *)
(* commands it sent through _execute_command; resp: what sbatch, scancel   *)
(* or rm -r answered; sftp: how the SFTP write of save_job went in submit, *)
(* cancel and cleanup (setup_job's failures are told by raised and orig);  *)
(* created: setup_job made its directory; check and choices: cleanup_job's *)
(* flag and the answers typed at its prompts.                              *)
Call(op, raised, orig, issued, resp, sftp, created, check, choices) ==
    [op |-> op, raised |-> raised, orig |-> orig, issued |-> issued,
     resp |-> resp, sftp |-> sftp, created |-> created, check |-> check,
     choices |-> choices]

(* ------------------------------ setup_job ------------------------------ *)

SetupSteps ==
    {"config", "mkdir", "cp", "ls", "setup.sh", "wrapper", "upload", "write",
     "chmod", "save"}

(* What the environment does to one setup_job call: the step that fails    *)
(* first (failAt, "none" for none) and how (the command's answer; for an   *)
(* SFTP step SSHDown is a dropped connection and Complains a broken        *)
(* write), whether the app ships a setup.sh, whether job.json names any    *)
(* input, and whether the rm -rf of _cleanup can reach the remote.         *)
(* An input that cannot bear on the call has one value: hasSetupSh and     *)
(* hasInputs where the failing step comes before they are read, rmFails    *)
(* where _cleanup is never run.  A command that fails complains on stderr; *)
(* an SFTP step fails either way.                                          *)
SetupInputs ==
    {inp \in [failAt : SetupSteps \cup {"none"}, how : {SSHDown, Complains},
              hasSetupSh : BOOLEAN, hasInputs : BOOLEAN, rmFails : BOOLEAN] :
        /\ inp.failAt \notin {"write", "save"} => inp.how = Complains
        /\ inp.failAt = "setup.sh" => inp.hasSetupSh
        /\ inp.failAt \notin {"none", "setup.sh"} => ~inp.hasSetupSh
        /\ inp.failAt = "upload" => inp.hasInputs
        /\ inp.failAt \notin {"none", "wrapper", "upload"} => ~inp.hasInputs
        /\ inp.failAt \notin {"wrapper", "upload", "chmod", "save"}
               => ~inp.rmFails}

RespAt(inp, step) == IF inp.failAt = step THEN inp.how ELSE Quiet
SftpAt(inp, step) ==
    IF inp.failAt # step THEN "ok"
    ELSE IF inp.how.exc THEN "down" ELSE "partial"

KeepOrig(st, e) == IF Raised(st.orig) THEN st.orig ELSE e

(* lines 344-358: the new record *)
NewJob(name) ==
    LET setup_ts == strftime(now)
        job_id == JobId(name, setup_ts)
    IN [name |-> name, job_id |-> job_id, job_dir |-> JobDir(job_id),
        ts |-> [setup_ts |-> setup_ts, submit_ts |-> None,
                start_ts |-> None, end_ts |-> None],
        slurm |-> EmptyDict]

(* the state setup_job threads through its steps *)
SetupStart(name) ==
    [jc |-> NewJob(name), ds |-> dirs, fs |-> files, raised |-> NoError,
     orig |-> NoError, issued |-> <<>>, created |-> FALSE, wrapper |-> TRUE]

(* lines 333-342: the project, job and app configs are loaded *)
StConfig(st, inp) ==
    IF inp.failAt = "config"
    THEN [st EXCEPT !.raised = Err("FileNotFoundError", "config"),
                    !.orig = Err("FileNotFoundError", "config")]
    ELSE st

(* mkdir that accepts a directory that exists, as mkdir -p does *)
StMkdirOverExisting(st, inp) ==
    IF Raised(st.raised) THEN st
    ELSE LET resp == RespAt(inp, "mkdir")
             s1 == [st EXCEPT !.issued = Append(@, Cmd("mkdir", st.jc.job_dir))]
         IN IF ExecRaises(resp) # None
            THEN [s1 EXCEPT !.raised = Err(ExecRaises(resp), "mkdir"),
                            !.orig = Err(ExecRaises(resp), "mkdir")]
            ELSE [s1 EXCEPT !.ds = @ \cup {st.jc.job_dir}, !.created = TRUE]

(* lines 359-364: mkdir fails on a directory that exists; raise e *)
StMkdir(st, inp) ==
    IF Raised(st.raised) THEN st
    ELSE LET resp == IF inp.failAt = "mkdir" THEN inp.how
                     ELSE IF st.jc.job_dir \in st.ds THEN Complains
                     ELSE Quiet
             s1 == [st EXCEPT !.issued = Append(@, Cmd("mkdir", st.jc.job_dir))]
         IN IF ExecRaises(resp) # None
            THEN [s1 EXCEPT !.raised = Err(ExecRaises(resp), "mkdir"),
                            !.orig = Err(ExecRaises(resp), "mkdir")]
            ELSE [s1 EXCEPT !.ds = @ \cup {st.jc.job_dir}, !.created = TRUE]

(* lines 367-368: _cleanup, rm -rf of the job directory; what it raises    *)
(* is raised from where it was called                                      *)
Cleanup(st, inp) ==
    LET s1 == [st EXCEPT !.issued = Append(@, Cmd("rm -rf", st.jc.job_dir))]
    IN IF inp.rmFails
       THEN [s1 EXCEPT !.raised = Err("SSHException", "_cleanup")]
       ELSE [s1 EXCEPT !.ds = @ \ {st.jc.job_dir},
                       !.fs = Pop(@, st.jc.job_dir)]

(* lines 370-373: cp -r of the app's assets, outside any try *)
StCp(st, inp) ==
    IF Raised(st.raised) THEN st
    ELSE LET resp == RespAt(inp, "cp")
             s1 == [st EXCEPT !.issued = Append(@, Cmd("cp -r", st.jc.job_dir))]
         IN IF ExecRaises(resp) # None
            THEN [s1 EXCEPT !.raised = Err(ExecRaises(resp), "cp"),
                            !.orig = Err(ExecRaises(resp), "cp")]
            ELSE s1

(* lines 375-380: list_files turns any failure into FileNotFoundError;     *)
(* setup.sh is made executable and run, outside any try                    *)
StSetupSh(st, inp) ==
    IF Raised(st.raised) THEN st
    ELSE IF ExecRaises(RespAt(inp, "ls")) # None
    THEN [st EXCEPT !.raised = Err("FileNotFoundError", "ls"),
                    !.orig = Err("FileNotFoundError", "ls")]
    ELSE IF ~inp.hasSetupSh THEN st
    ELSE LET resp == RespAt(inp, "setup.sh")
             s1 == [st EXCEPT !.issued =
                        Append(@, Cmd("setup.sh", st.jc.job_dir))]
         IN IF ExecRaises(resp) # None
            THEN [s1 EXCEPT !.raised = Err(ExecRaises(resp), "setup.sh"),
                            !.orig = Err(ExecRaises(resp), "setup.sh")]
            ELSE s1

(* lines 398-405: the handler runs _cleanup and builds an Exception it     *)
(* does not raise: setup goes on with wrapper_script unbound               *)
StWrapper(st, inp) ==
    IF Raised(st.raised) THEN st
    ELSE IF inp.failAt # "wrapper" THEN st
    ELSE [Cleanup(st, inp) EXCEPT
              !.orig = Err("FileNotFoundError", "wrapper"), !.wrapper = FALSE]

(* lines 454-465: send_file of each input; the handler runs _cleanup, then *)
(* formats msg with arg['name'], arg a str: TypeError                      *)
StInputs(st, inp) ==
    IF Raised(st.raised) THEN st
    ELSE IF ~inp.hasInputs THEN st
    ELSE IF inp.failAt # "upload" /\ st.jc.job_dir \in st.ds THEN st
    ELSE LET s1 == Cleanup(st, inp)
             e == KeepOrig(st, Err("IOError", "upload"))
         IN IF Raised(s1.raised) THEN [s1 EXCEPT !.orig = e]
            ELSE [s1 EXCEPT !.raised = Err("TypeError", "upload"), !.orig = e]

(* lines 489-496: the two scripts are written over SFTP, outside any try   *)
StWrite(st, inp) ==
    IF Raised(st.raised) THEN st
    ELSE IF inp.failAt = "write" /\ inp.how.exc
    THEN [st EXCEPT !.raised = Err("SSHException", "write"),
                    !.orig = KeepOrig(st, Err("SSHException", "write"))]
    ELSE IF inp.failAt = "write" \/ st.jc.job_dir \notin st.ds
    THEN [st EXCEPT !.raised = Err("IOError", "write"),
                    !.orig = KeepOrig(st, Err("IOError", "write"))]
    ELSE IF ~st.wrapper
    THEN [st EXCEPT !.raised = Err("UnboundLocalError", "write")]
    ELSE st

(* lines 498-506: as for the wrapper script, the Exception is not raised   *)
StChmod(st, inp) ==
    IF Raised(st.raised) THEN st
    ELSE LET resp == RespAt(inp, "chmod")
             s1 == [st EXCEPT !.issued = Append(@, Cmd("chmod", st.jc.job_dir))]
         IN IF ExecRaises(resp) # None
            THEN [Cleanup(s1, inp) EXCEPT
                      !.orig = Err(ExecRaises(resp), "chmod")]
            ELSE s1

(* lines 508-515: save_job; the handler runs _cleanup and raises e *)
StSave(st, inp) ==
    IF Raised(st.raised) THEN st
    ELSE LET sftp == SftpAt(inp, "save")
             e == SaveRaises(st.jc, st.ds, sftp)
             s1 == [st EXCEPT !.jc = Stamped(st.jc),
                              !.fs = SaveFiles(st.jc, st.ds, st.fs, sftp)]
         IN IF e = None THEN s1
            ELSE LET s2 == Cleanup(s1, inp)
                 IN IF Raised(s2.raised)
                    THEN [s2 EXCEPT !.orig = KeepOrig(st, Err(e, "save"))]
                    ELSE [s2 EXCEPT !.raised = Err(e, "save"),
                                    !.orig = KeepOrig(st, Err(e, "save"))]

setup_job(name, inp) ==
    StSave(StChmod(StWrite(StInputs(StWrapper(StSetupSh(StCp(StMkdir(
        StConfig(SetupStart(name), inp), inp), inp), inp), inp), inp), inp),
        inp), inp)

(* ------------------------------ submit_job ----------------------------- *)

(* what sbatch can answer: with no directory to cd into, cd complains *)
SbatchResponses(jc, ds) ==
    IF jc.job_dir \in ds
    THEN {SSHDown, Complains}
             \cup {Response(FALSE, o, <<>>, 0) : o \in SbatchOutputs}
    ELSE {SSHDown, Complains}

SubmitGuardNoSubmitTest(jc) == jc.ts.setup_ts # None

SubmitGuardNoSetupTest(jc) == jc.ts.submit_ts = None

(* line 521 *)
SubmitGuard(jc) == jc.ts.setup_ts # None /\ jc.ts.submit_ts = None

(* line 529: ret.split('\n')[-2] raises IndexError on fewer than two pieces *)
ParseFails(ret) == Len(split(ret, "\n")) < 2

(* line 529: ret.split('\n')[-2].split(' ')[-1] *)
ParseSlurmId(ret) ==
    LET lines == split(ret, "\n")
        words == split(lines[Len(lines) - 1], " ")
    IN words[Len(words)]

IsFailedOnlySentinel(slurm_id) == slurm_id = <<"FAILED">>

(* line 530 *)
IsFailed(slurm_id) == slurm_id = <<"FAILED">> \/ slurm_id = <<>>

SubmitFailedStamped(jc, ret) ==
    [jc EXCEPT !.slurm = Put(@, "sbatch_ret", ret),
               !.ts = Put(@, "submit_ts", strftime(now))]

(* line 531: the record a rejected submit leaves *)
SubmitFailed(jc, ret) == [jc EXCEPT !.slurm = Put(@, "sbatch_ret", ret)]

(* what a call on a record hands back: the record as the call leaves it,   *)
(* the remote, the error raised, the first error, the commands issued      *)
Outcome(jc, ds, fs, raised, orig, issued) ==
    [jc |-> jc, ds |-> ds, fs |-> fs, raised |-> raised, orig |-> orig,
     issued |-> issued]

(* lines 520-542 *)
submit_job(jc, ds, fs, resp, sftp) ==
    IF ~SubmitGuard(jc)
    THEN Outcome(jc, ds, fs, Err("Exception", "guard"),
                 Err("Exception", "guard"), <<>>)
    ELSE
    LET cmnd == Cmd("sbatch", jc.job_dir)
        ret == resp.out
    IN IF ExecRaises(resp) # None
       THEN \* the handler builds an Exception and drops it: ret is unbound
            Outcome(jc, ds, fs, Err("UnboundLocalError", "sbatch"),
                    Err(ExecRaises(resp), "sbatch"), <<cmnd>>)
       ELSE IF ParseFails(ret)
       THEN Outcome(jc, ds, fs, Err("IndexError", "parse"),
                    Err("IndexError", "parse"), <<cmnd>>)
       ELSE
       LET jc1 == [jc EXCEPT !.slurm = Put(@, "slurm_id", ParseSlurmId(ret))]
       IN IF IsFailed(jc1.slurm["slurm_id"])
          THEN Outcome(SubmitFailed(jc1, ret), ds, fs, Err("Exception", "sentinel"),
                       Err("Exception", "sentinel"), <<cmnd>>)
          ELSE
          LET jc2 == [jc1 EXCEPT !.slurm = Pop(@, "sbatch_ret"),
                                 !.ts = Put(@, "submit_ts", strftime(now))]
              e == SaveRaises(jc2, ds, sftp)
          IN Outcome(Stamped(jc2), ds, SaveFiles(jc2, ds, fs, sftp),
                     Err(e, IF e = None THEN None ELSE "save"),
                     Err(e, IF e = None THEN None ELSE "save"), <<cmnd>>)

(* ------------------------------ cancel_job ----------------------------- *)

CancelGuardOnSetup(jc) == jc.ts.setup_ts # None

(* line 546 *)
CancelGuard(jc) == jc.ts.submit_ts # None

CancelledKeepsId(jc) ==
    [jc EXCEPT !.ts = [setup_ts |-> None, submit_ts |-> None,
                       start_ts |-> None, end_ts |-> None]]

CancelledKeepsSetup(jc) ==
    [jc EXCEPT !.slurm = Pop(@, "slurm_id"),
               !.ts = [setup_ts |-> jc.ts.setup_ts, submit_ts |-> None,
                       start_ts |-> None, end_ts |-> None]]

(* lines 550-554: the record a cancel leaves *)
Cancelled(jc) ==
    [jc EXCEPT !.slurm = Pop(@, "slurm_id"),
               !.ts = [setup_ts |-> None, submit_ts |-> None,
                       start_ts |-> None, end_ts |-> None]]

(* cancel_job with the scancel error swallowed *)
cancel_job_swallowing(jc, ds, fs, resp, sftp) ==
    IF ~CancelGuard(jc)
    THEN Outcome(jc, ds, fs, Err("Exception", "guard"),
                 Err("Exception", "guard"), <<>>)
    ELSE LET e == SaveRaises(Cancelled(jc), ds, sftp)
         IN Outcome(Stamped(Cancelled(jc)), ds,
                    SaveFiles(Cancelled(jc), ds, fs, sftp),
                    Err(e, IF e = None THEN None ELSE "save"),
                    Err(e, IF e = None THEN None ELSE "save"),
                    <<Cmd("scancel", Join(jc.slurm["slurm_id"]))>>)

(* lines 545-562 *)
cancel_job(jc, ds, fs, resp, sftp) ==
    IF ~CancelGuard(jc)
    THEN Outcome(jc, ds, fs, Err("Exception", "guard"),
                 Err("Exception", "guard"), <<>>)
    ELSE IF ~Has(jc.slurm, "slurm_id")
    THEN Outcome(jc, ds, fs, Err("KeyError", "scancel"),
                 Err("KeyError", "scancel"), <<>>)
    ELSE
    LET cmnd == Cmd("scancel", Join(jc.slurm["slurm_id"]))
    IN IF ExecRaises(resp) # None
       THEN Outcome(jc, ds, fs, Err(ExecRaises(resp), "scancel"),
                    Err(ExecRaises(resp), "scancel"), <<cmnd>>)
       ELSE
       LET jc1 == Cancelled(jc)
           e == SaveRaises(jc1, ds, sftp)
       IN Outcome(Stamped(jc1), ds, SaveFiles(jc1, ds, fs, sftp),
                  Err(e, IF e = None THEN None ELSE "save"),
                  Err(e, IF e = None THEN None ELSE "save"), <<cmnd>>)

(* ------------------------------ cleanup_job ---------------------------- *)

(* line 566 *)
CleanupGuard(jc) == jc.ts.setup_ts # None

(* rm -r with job_dir cleared before the command is sent *)
RemoveJobDirClearsFirst(o, resp) ==
    IF o.jc.job_dir = None
    THEN [o EXCEPT !.raised = Err("TypeError", "rm"),
                   !.orig = Err("TypeError", "rm")]
    ELSE LET cmnd == Cmd("rm -r", o.jc.job_dir)
             o1 == [o EXCEPT !.issued = Append(@, cmnd),
                             !.jc = [@ EXCEPT !.job_dir = None]]
         IN IF ExecRaises(resp) # None
            THEN [o1 EXCEPT !.raised = Err(ExecRaises(resp), "rm"),
                            !.orig = Err(ExecRaises(resp), "rm")]
            ELSE [o1 EXCEPT !.ds = @ \ {o.jc.job_dir},
                            !.fs = Pop(@, o.jc.job_dir)]

(* lines 577-580: rm -r of the job directory, then job_dir = None *)
RemoveJobDir(o, resp) ==
    IF o.jc.job_dir = None
    THEN \* 'rm -r ' + None
         [o EXCEPT !.raised = Err("TypeError", "rm"),
                   !.orig = Err("TypeError", "rm")]
    ELSE LET cmnd == Cmd("rm -r", o.jc.job_dir)
             o1 == [o EXCEPT !.issued = Append(@, cmnd)]
         IN IF ExecRaises(resp) # None
            THEN [o1 EXCEPT !.raised = Err(ExecRaises(resp), "rm"),
                            !.orig = Err(ExecRaises(resp), "rm")]
            ELSE [o1 EXCEPT !.ds = @ \ {o.jc.job_dir},
                            !.fs = Pop(@, o.jc.job_dir),
                            !.jc = [@ EXCEPT !.job_dir = None]]

ConfirmsAnything(choice) == TRUE

(* lines 569 and 574: the lowered answer must be 'yes' *)
Confirms(choice) == choice = "yes"

(* lines 565-586.  choices: the answers typed at the two prompts, lowered; *)
(* a declined prompt returns None, the record as it is by then             *)
cleanup_job(jc, ds, fs, check, choices, cresp, sftp, resp) ==
    IF ~CleanupGuard(jc)
    THEN Outcome(jc, ds, fs, Err("Exception", "guard"),
                 Err("Exception", "guard"), <<>>)
    ELSE
    LET start == Outcome(jc, ds, fs, NoError, NoError, <<>>)
        asks == check /\ jc.ts.submit_ts # None
        o1 == IF asks /\ Confirms(choices[1])
              THEN cancel_job(jc, ds, fs, cresp, sftp)
              ELSE start
    IN IF asks /\ ~Confirms(choices[1]) THEN start
       ELSE IF Raised(o1.raised) THEN o1
       ELSE IF check /\ ~Confirms(choices[2]) THEN o1
       ELSE RemoveJobDir(o1, resp)

(* ------------------------------ load_job_config ------------------------ *)

jobs_dir == "$SCRATCH/taccjm-jobs"

(* the job identities setup_job can have made, and one it cannot *)
JobIds == {JobId(name, strftime(t)) : name \in {"job"}, t \in 1..MaxTime}
JobNames == JobIds \cup {"bad_job"}

(* what ls -lat of jobs_dir prints: the total line, then a line for each   *)
(* entry, '.' and '..' among them, the name last on its line               *)
RECURSIVE LsLines(_)
LsLines(names) ==
    IF names = {} THEN <<>>
    ELSE LET n == CHOOSE x \in names : TRUE
         IN <<"drwx", " ", n, "\n">> \o LsLines(names \ {n})

LsOutput(ds) ==
    <<"total", " ", "0", "\n">>
        \o LsLines({".", ".."} \cup {j \in JobIds : JobDir(j) \in ds})

LsResponses(ds) == {SSHDown, Complains, Response(FALSE, LsOutput(ds), <<>>, 0)}

(* list.remove(v) when v is in the list: the first occurrence goes *)
RemoveFirst(l, v) ==
    IF \A i \in 1..Len(l) : l[i] # v THEN l
    ELSE LET i == CHOOSE j \in 1..Len(l) :
                      l[j] = v /\ \A k \in 1..(j - 1) : l[k] # v
         IN SubSeq(l, 1, i - 1) \o SubSeq(l, i + 1, Len(l))

(* lines 109-116: the last word of every line after the first, less one '' *)
(* one '.' and one '..'; the names as a set (the list is only searched)    *)
list_files(ret) ==
    LET lines == Tail(split(ret, "\n"))
        names == [i \in 1..Len(lines) |->
                     LET words == split(lines[i], " ") IN words[Len(words)]]
        kept == RemoveFirst(RemoveFirst(RemoveFirst(names, <<>>), <<".">>),
                            <<"..">>)
    IN {kept[i] : i \in 1..Len(kept)}

(* lines 312-327.  resp: the answer to ls -lat; sftp: "down" when          *)
(* open_sftp raises, "partial" when the read of the file breaks off        *)
load_job_config(job_name, ds, fs, resp, sftp) ==
    LET cmnd == Cmd("ls -lat", jobs_dir)
        fail(type, at, first) ==
            Outcome(NoJob, ds, fs, Err(type, at), Err(first, at), <<cmnd>>)
    IN IF ExecRaises(resp) # None
       THEN fail("FileNotFoundError", "ls", ExecRaises(resp))
       ELSE IF <<job_name>> \notin list_files(resp.out)
       THEN \* raise Exeception('Job not found.'): the name is not defined
            fail("NameError", "jobs", "NameError")
       ELSE IF sftp = "down" THEN fail("SSHException", "open", "SSHException")
       ELSE IF JobDir(job_name) \notin DOMAIN fs
       THEN fail("FileNotFoundError", "open", "FileNotFoundError")
       ELSE IF sftp = "partial" THEN fail("IOError", "read", "IOError")
       ELSE IF fs[JobDir(job_name)] = {}
       THEN fail("JSONDecodeError", "json", "JSONDecodeError")
       ELSE Outcome(json_load(CHOOSE doc \in fs[JobDir(job_name)] : TRUE),
                    ds, fs, NoError, NoError, <<cmnd>>)

(* ------------------------------ the calls ------------------------------ *)

Names == {"job"}

SetupCall ==
    \E name \in Names, inp \in SetupInputs :
        LET st == setup_job(name, inp)
        IN /\ dirs' = st.ds
           /\ files' = st.fs
           /\ job_config' = IF Raised(st.raised) THEN job_config ELSE st.jc
           /\ last' = Call("setup", st.raised, st.orig, st.issued, Quiet, "ok",
                           st.created, FALSE, <<"yes", "yes">>)
           /\ UNCHANGED <<now, registry, monitor>>

(* An input the call never reads has one value (Quiet, "ok", "yes"): the  *)
(* answer to a command that is not sent, the SFTP write that is not        *)
(* tried, the prompt that is not shown.                                    *)
SubmitReads(jc, resp, sftp) ==
    /\ ~SubmitGuard(jc) => resp = Quiet
    /\ (~SubmitGuard(jc) \/ ExecRaises(resp) # None \/ ParseFails(resp.out)
           \/ IsFailed(ParseSlurmId(resp.out))) => sftp = "ok"

CancelReads(jc, resp, sftp) ==
    /\ ~CancelGuard(jc) => resp = Quiet
    /\ (~CancelGuard(jc) \/ ExecRaises(resp) # None) => sftp = "ok"

CleanupReads(jc, check, choices, cresp, sftp, resp) ==
    LET asks == check /\ jc.ts.submit_ts # None
        cancels == CleanupGuard(jc) /\ asks /\ choices[1] = "yes"
        removes == /\ CleanupGuard(jc)
                   /\ asks => choices[1] = "yes"
                   /\ cancels => ExecRaises(cresp) = None
                                    /\ SaveRaises(jc, dirs, sftp) = None
                   /\ check => choices[2] = "yes"
                   /\ jc.job_dir # None
    IN /\ ~asks => choices[1] = "yes"
       /\ (~check \/ ~CleanupGuard(jc) \/ choices[1] # "yes"
              \/ (cancels /\ (ExecRaises(cresp) # None
                                \/ SaveRaises(jc, dirs, sftp) # None)))
             => choices[2] = "yes"
       /\ ~cancels => cresp = Quiet
       /\ (~cancels \/ ExecRaises(cresp) # None) => sftp = "ok"
       /\ ~removes => resp = Quiet

(* the caller holds a record once a setup_job has returned one *)
HoldsJob == job_config # NoJob

SubmitCall ==
    /\ HoldsJob
    /\ \E resp \in SbatchResponses(job_config, dirs), sftp \in SftpModes :
        LET o == submit_job(job_config, dirs, files, resp, sftp)
        IN /\ SubmitReads(job_config, resp, sftp)
           /\ dirs' = o.ds
           /\ files' = o.fs
           /\ job_config' = o.jc
           /\ last' = Call("submit", o.raised, o.orig, o.issued, resp, sftp,
                           FALSE, FALSE, <<"yes", "yes">>)
           /\ UNCHANGED <<now, registry, monitor>>

CancelCall ==
    /\ HoldsJob
    /\ \E resp \in Plain, sftp \in SftpModes :
        LET o == cancel_job(job_config, dirs, files, resp, sftp)
        IN /\ CancelReads(job_config, resp, sftp)
           /\ dirs' = o.ds
           /\ files' = o.fs
           /\ job_config' = o.jc
           /\ last' = Call("cancel", o.raised, o.orig, o.issued, resp, sftp,
                           FALSE, FALSE, <<"yes", "yes">>)
           /\ UNCHANGED <<now, registry, monitor>>

Answers == {"yes", "no"}

CleanupCall ==
    /\ HoldsJob
    /\ \E check \in BOOLEAN, choices \in Answers \X Answers,
          cresp \in Plain, sftp \in SftpModes, resp \in Plain :
        LET o == cleanup_job(job_config, dirs, files, check, choices, cresp,
                             sftp, resp)
        IN /\ CleanupReads(job_config, check, choices, cresp, sftp, resp)
           /\ dirs' = o.ds
           /\ files' = o.fs
           /\ job_config' = o.jc
           /\ last' = Call("cleanup", o.raised, o.orig, o.issued, resp, sftp,
                           FALSE, check, choices)
           /\ UNCHANGED <<now, registry, monitor>>

(* save_job called on the record held *)
SaveCall ==
    /\ HoldsJob
    /\ \E sftp \in SftpModes :
        LET e == SaveRaises(job_config, dirs, sftp)
            raised == Err(e, IF e = None THEN None ELSE "save")
        IN /\ (job_config.job_dir = None \/ job_config.job_dir \notin dirs)
                  => sftp = "ok"
           /\ files' = SaveFiles(job_config, dirs, files, sftp)
           /\ job_config' = Stamped(job_config)
           /\ last' = Call("save", raised, raised, <<>>, Quiet, sftp, FALSE,
                           FALSE, <<"yes", "yes">>)
           /\ UNCHANGED <<now, dirs, registry, monitor>>

LoadReads(job_name, resp, sftp) ==
    (ExecRaises(resp) # None \/ <<job_name>> \notin list_files(resp.out)
        \/ JobDir(job_name) \notin DOMAIN files) => sftp = "ok"

(* load_job_config called by a caller that then holds the record returned *)
LoadCall ==
    \E job_name \in JobNames, resp \in LsResponses(dirs), sftp \in SftpModes :
        LET o == load_job_config(job_name, dirs, files, resp, sftp)
        IN /\ LoadReads(job_name, resp, sftp)
           /\ job_config' = IF Raised(o.raised) THEN job_config ELSE o.jc
           /\ last' = Call("load", o.raised, o.orig, o.issued, resp, sftp,
                           FALSE, FALSE, <<"yes", "yes">>)
           /\ UNCHANGED <<now, dirs, files, registry, monitor>>

(* What a command can leave behind: stdout, stderr and the exit status of  *)
(* the remote process, in every combination.                               *)
ExecOutputs ==
    {<<>>, <<"out">>, <<"out", "\n">>, <<"a", "\n", "b", "\n">>, <<"\n">>}

ExecErrors ==
    {<<>>, <<"error">>, <<"warning", "\n">>, <<"\n">>,
     <<"bash:", " ", "foo:", " ", "command", " ", "not", " ", "found", "\n">>}

ExitStatuses == {0, 1, 2, 127, 255}

ExecResponses ==
    {SSHDown} \cup {Response(FALSE, out, err, status) :
                       out \in ExecOutputs, err \in ExecErrors,
                       status \in ExitStatuses}

(* lines 89-90: showq, which returns what _execute_command returns *)
ExecCall ==
    \E resp \in ExecResponses :
        /\ last' = Call("exec", Err(ExecRaises(resp), IF ExecRaises(resp) = None
                                                      THEN None ELSE "exec"),
                        Err(ExecRaises(resp), IF ExecRaises(resp) = None
                                              THEN None ELSE "exec"),
                        <<Cmd("showq -u", "user")>>, resp, "ok", FALSE, FALSE,
                        <<"yes", "yes">>)
        /\ UNCHANGED <<now, dirs, files, job_config, registry, monitor>>

(* ------------------------------ the command registry ------------------- *)

(* The registry of the SSH client (TACCSSHClient: commands,                *)
(* execute_command, process_command) is not among the sources; it is       *)
(* modelled from sections 3, 4.1 and 4.2 of the specification, with the    *)
(* names its tests use.                                                    *)

(* The last call on the registry.  op: "issue", "status" or "poll"; id,    *)
(* wait, max_bytes and error: the arguments of poll; before: the status the *)
(* command had when the call began; raised: the error raised, None when    *)
(* the call returned.                                                      *)
Reply(op, id, wait, max_bytes, error, before, raised) ==
    [op |-> op, id |-> id, wait |-> wait, max_bytes |-> max_bytes,
     error |-> error, before |-> before, raised |-> raised]

NoReply == Reply("init", 0, FALSE, 0 - 1, FALSE, None, None)

Terminal == {"COMPLETE", "FAILED"}

(* what a remote process does: the bytes it writes to stdout and to stderr *)
(* and the status it exits with                                            *)
Processes ==
    { [out |-> <<"h", "i">>, err |-> <<>>, exit |-> 0],
      [out |-> <<"h", "i">>, err |-> <<"e">>, exit |-> 0],
      [out |-> <<>>, err |-> <<"e">>, exit |-> 1] }

(* The duplex channel of a command.  proc: the remote process behind it; *)
(* todo_out, todo_err: what the process                                    *)
(* has yet to write; ready_out, ready_err: written and not yet read;       *)
(* exited: the process has finished and the channel reports closed;        *)
(* broken: the channel or the transport raises an I/O error when used.     *)
Channel(proc) ==
    [proc |-> proc,
     todo_out |-> proc.out, todo_err |-> proc.err, ready_out |-> <<>>,
     ready_err |-> <<>>, exited |-> FALSE, exit |-> proc.exit,
     broken |-> FALSE]

NextIdReused(cmds) == 1

(* section 3, identity: the next integer, counted from 1 *)
NextId(cmds) == Len(cmds) + 1

(* section 3: a command as issue records it *)
NewCommand(id, text, proc) ==
    [id |-> id, cmd |-> text, ts |-> strftime(now), status |-> "STARTED",
     stdout |-> <<>>, stderr |-> <<>>,
     history |-> <<[status |-> "STARTED", ts |-> strftime(now)]>>,
     channel |-> Channel(proc)]

(* section 4.1: a change of status appends (status, timestamp) to history *)
SetStatus(c, status) ==
    [c EXCEPT !.status = status,
              !.history = Append(@, [status |-> status, ts |-> strftime(now)])]

Overwritten(buf, bytes) == bytes

(* section 4.2: bytes read are appended to the buffer *)
Received(buf, bytes) == buf \o bytes

TakeAll(ready, max_bytes) == Len(ready)

(* the first max_bytes of what is ready, all of it when max_bytes < 0 *)
Take(ready, max_bytes) ==
    IF max_bytes < 0 \/ max_bytes >= Len(ready) THEN Len(ready) ELSE max_bytes

DrainSizeCapped(ready, max_bytes) == Take(ready, max_bytes)

(* section 4.2: once the channel is closed everything buffered is read,    *)
(* whatever max_bytes is                                                   *)
DrainSize(ready, max_bytes) == Len(ready)

(* n bytes are read from what is ready on one stream of the channel *)
Read(buf, ready, n) ==
    [buf |-> Received(buf, SubSeq(ready, 1, n)),
     ready |-> SubSeq(ready, n + 1, Len(ready))]

TerminalStatusIgnoringExit(exit) == "COMPLETE"

(* section 4.2: COMPLETE on exit status 0, FAILED otherwise *)
TerminalStatus(exit) == IF exit = 0 THEN "COMPLETE" ELSE "FAILED"

RaisesWhateverFlag(error, status) ==
    IF status = "FAILED" THEN "CommandFailure" ELSE None

(* section 4.2, CommandFailure: raised for a command found FAILED when the *)
(* caller asked for errors to be raised                                    *)
Raises(error, status) ==
    IF error /\ status = "FAILED" THEN "CommandFailure" ELSE None

NoDataNever(ch) == FALSE

(* the channel reports no data ready *)
NoData(ch) == ch.ready_out = <<>> /\ ch.ready_err = <<>>

(* section 4.2, error classification: the command is FAILED and the        *)
(* exception text is captured in standard-error                            *)
Failed(c) ==
    [SetStatus(c, "FAILED") EXCEPT
        !.stderr = Received(c.stderr, <<"I/O error">>)]

(* section 4.2: the streams are read independently, n bytes of stdout and  *)
(* m bytes of stderr                                                       *)
ReadBoth(c, n, m) ==
    LET o == Read(c.stdout, c.channel.ready_out, n)
        e == Read(c.stderr, c.channel.ready_err, m)
    IN [c EXCEPT !.stdout = o.buf, !.stderr = e.buf,
                 !.channel.ready_out = o.ready,
                 !.channel.ready_err = e.ready]

(* section 4.2, channel closed: full drain, then the exit status decides *)
Finished(c, max_bytes) ==
    SetStatus(ReadBoth(c, DrainSize(c.channel.ready_out, max_bytes),
                          DrainSize(c.channel.ready_err, max_bytes)),
              TerminalStatus(c.channel.exit))

(* section 4.2, data ready: up to max_bytes of each stream, RUNNING if     *)
(* the command was STARTED                                                 *)
Drained(c, max_bytes) ==
    LET c1 == ReadBoth(c, Take(c.channel.ready_out, max_bytes),
                          Take(c.channel.ready_err, max_bytes))
    IN IF c.status = "STARTED" THEN SetStatus(c1, "RUNNING") ELSE c1

(* poll with no test for a terminal status *)
poll_unfrozen(c, wait, max_bytes, error) ==
    IF c.channel.broken
    THEN [c |-> Failed(c), raised |-> Raises(error, "FAILED")]
    ELSE IF c.channel.exited
    THEN LET c1 == Finished(c, max_bytes)
         IN [c |-> c1, raised |-> Raises(error, c1.status)]
    ELSE [c |-> Drained(c, max_bytes), raised |-> None]

(* section 4.2, the transition rule of poll on a command of the registry:  *)
(* the command as the poll leaves it, and what the poll raises             *)
poll(c, wait, max_bytes, error) ==
    IF c.status \in Terminal THEN [c |-> c, raised |-> None]
    ELSE IF c.channel.broken
    THEN [c |-> Failed(c), raised |-> Raises(error, "FAILED")]
    ELSE IF c.channel.exited
    THEN LET c1 == Finished(c, max_bytes)
         IN [c |-> c1, raised |-> Raises(error, c1.status)]
    ELSE IF NoData(c.channel)
    THEN [c |-> c, raised |-> None]
    ELSE [c |-> Drained(c, max_bytes), raised |-> None]

(* poll(wait=true) suspends the caller while the channel is open with no   *)
(* data ready: the call returns once data is ready or the channel closes   *)
Blocks(c, wait) ==
    /\ wait
    /\ c.status \notin Terminal
    /\ ~c.channel.broken /\ ~c.channel.exited
    /\ NoData(c.channel)

(* what a call on the registry leaves alone *)
manager == <<dirs, files, job_config, last>>

PollSizes == {0 - 1, 1}

(* section 4.1, issue: a channel is opened, the command gets the next      *)
(* identity and status STARTED; TransportError when no channel opens       *)
Issue ==
    /\ Len(commands) < MaxCommands
    /\ \E opens \in BOOLEAN, proc \in Processes :
        LET id == NextId(commands)
        IN /\ ~opens => proc = [out |-> <<>>, err |-> <<"e">>, exit |-> 1]
           /\ commands' = IF opens
                           THEN Append(commands, NewCommand(id, "echo hi", proc))
                           ELSE commands
           /\ reply' = Reply("issue", id, FALSE, 0 - 1, FALSE, None,
                             IF opens THEN None ELSE "TransportError")
    /\ UNCHANGED <<now, manager, monitor>>

(* the identities a caller asks for: issued, next, and never to be issued *)
Ids == 0..(MaxCommands + 1)

LookupUnchecked(id) == None

(* section 4.1: NotFoundError for an identity that was never issued *)
Lookup(id) == IF id \in 1..Len(commands) THEN None ELSE "NotFoundError"

(* section 4.1, status: the snapshot of a command, nothing is changed *)
Status ==
    /\ \E id \in Ids :
        reply' = Reply("status", id, FALSE, 0 - 1, FALSE,
                       IF id \in 1..Len(commands)
                       THEN commands[id].status ELSE None,
                       Lookup(id))
    /\ UNCHANGED <<now, manager, commands, monitor>>

(* the error flag is read only by a poll that finds the command failed,   *)
(* and a poll of an identity never issued reads none of its arguments      *)
PollReads(id, wait, max_bytes, error) ==
    IF id \notin 1..Len(commands)
    THEN ~wait /\ max_bytes < 0 /\ ~error
    ELSE poll(commands[id], wait, max_bytes, TRUE).raised = None => ~error

(* section 4.1 and 4.2, poll: NotFoundError for an identity never issued *)
Poll ==
    /\ \E id \in Ids, wait \in BOOLEAN,
          max_bytes \in PollSizes, error \in BOOLEAN :
        /\ PollReads(id, wait, max_bytes, error)
        /\ IF Lookup(id) # None
           THEN /\ reply' = Reply("poll", id, wait, max_bytes, error, None,
                                  Lookup(id))
                /\ UNCHANGED commands
           ELSE /\ id \in 1..Len(commands)
                /\ ~Blocks(commands[id], wait)
                /\ LET r == poll(commands[id], wait, max_bytes, error)
                   IN /\ commands' = [commands EXCEPT ![id] = r.c]
                      /\ reply' = Reply("poll", id, wait, max_bytes, error,
                                        commands[id].status, r.raised)
    /\ UNCHANGED <<now, manager, monitor>>

(* the remote process of a command writes its next byte *)
Produce ==
    /\ \E i \in 1..Len(commands) :
        LET ch == commands[i].channel
        IN /\ ~ch.exited
           /\ \/ /\ ch.todo_out # <<>>
                 /\ commands' = [commands EXCEPT
                        ![i].channel.todo_out = Tail(@),
                        ![i].channel.ready_out = Append(@, Head(ch.todo_out))]
              \/ /\ ch.todo_err # <<>>
                 /\ commands' = [commands EXCEPT
                        ![i].channel.todo_err = Tail(@),
                        ![i].channel.ready_err = Append(@, Head(ch.todo_err))]
    /\ UNCHANGED <<now, manager, reply, monitor>>

(* the remote process of a command finishes: the channel reports closed *)
Exit ==
    /\ \E i \in 1..Len(commands) :
        LET ch == commands[i].channel
        IN /\ ~ch.exited
           /\ ch.todo_out = <<>> /\ ch.todo_err = <<>>
           /\ commands' = [commands EXCEPT ![i].channel.exited = TRUE]
    /\ UNCHANGED <<now, manager, reply, monitor>>

(* the connection drops: the channel of a command raises when used *)
Break ==
    /\ \E i \in 1..Len(commands) :
        /\ ~commands[i].channel.broken
        /\ commands[i].status \notin Terminal
        /\ commands' = [commands EXCEPT ![i].channel.broken = TRUE]
    /\ UNCHANGED <<now, manager, reply, monitor>>

(* ------------------------------ the heartbeat -------------------------- *)

(* taccjm_server_heartbeat.py.  What one tc.get_jobs(head=10) does: it     *)
(* raises, or it returns after elapsed seconds a response that has a text  *)
(* or has none.  A call that raises has no elapsed time: timing() never    *)
(* reaches the line that sets t1.                                          *)
Elapsed == {1, 2}

Raising == [raises |-> TRUE, text |-> FALSE, elapsed |-> 0]

GetJobsOutcomes ==
    {Raising} \cup {[raises |-> FALSE, text |-> t, elapsed |-> e] :
                       t \in BOOLEAN, e \in Elapsed}

(* heartbeat with no handler around its body *)
heartbeat_uncaught(st, out) ==
    IF out.raises
    THEN [stats |-> st, raised |-> "Exception"]
    ELSE [stats |-> Append(st, out.elapsed),
          raised |-> IF out.text THEN None ELSE "AttributeError"]

(* lines 39-52: an exception of get_jobs leaves the with block before line *)
(* 46 and is caught at line 50; when get_jobs returns, line 46 appends the *)
(* timing, and what the logging after it raises is caught as well          *)
heartbeat(st, out) ==
    IF out.raises
    THEN [stats |-> st, raised |-> None]
    ELSE [stats |-> Append(st, out.elapsed), raised |-> None]

(* line 34: while not self.finished.is_set() *)
TimerTest ==
    /\ thread.pc = "test"
    /\ thread' = [thread EXCEPT !.pc = IF finished THEN "done" ELSE "call"]
    /\ UNCHANGED <<now, manager, commands, reply, stats, finished>>

(* line 35: self.function(): heartbeat is called; an exception it lets out *)
(* ends run and with it the thread                                         *)
TimerCall ==
    /\ thread.pc = "call"
    /\ thread.calls < MaxHeartbeats
    /\ \E out \in GetJobsOutcomes :
        LET r == heartbeat(stats, out)
        IN /\ stats' = r.stats
           /\ thread' = [pc |-> IF r.raised = None THEN "wait" ELSE "dead",
                         calls |-> thread.calls + 1,
                         returned |-> thread.returned
                                        + (IF out.raises THEN 0 ELSE 1),
                         out |-> out]
    /\ UNCHANGED <<now, manager, commands, reply, finished>>

(* line 36: self.finished.wait(self.interval) returns when the interval    *)
(* has passed or the event is set                                          *)
TimerWait ==
    /\ thread.pc = "wait"
    /\ thread' = [thread EXCEPT !.pc = "test"]
    /\ UNCHANGED <<now, manager, commands, reply, stats, finished>>

(* Timer.cancel(), inherited by RepeatingTimer: the event is set *)
TimerCancel ==
    /\ ~finished
    /\ finished' = TRUE
    /\ UNCHANGED <<now, manager, commands, reply, stats, thread>>

(* ------------------------------ the clock ------------------------------ *)

Tick ==
    /\ now < MaxTime
    /\ now' = now + 1
    /\ UNCHANGED <<dirs, files, job_config, last, registry, monitor>>

Init ==
    /\ now = 1
    /\ dirs = {}
    /\ files = [d \in {} |-> {}]
    /\ job_config = NoJob
    /\ last = Call("init", NoError, NoError, <<>>, Quiet, "ok", FALSE, FALSE,
                   <<"yes", "yes">>)
    /\ commands = <<>>
    /\ reply = NoReply
    /\ stats = <<>>
    /\ finished = FALSE
    /\ thread = [pc |-> "test", calls |-> 0, returned |-> 0, out |-> Raising]

Next ==
    \/ Tick
    \/ SetupCall
    \/ SubmitCall
    \/ CancelCall
    \/ CleanupCall

Spec == Init /\ [][Next]_vars

(* setup_job called until it returns a record *)
FirstSetupCall == ~HoldsJob /\ SetupCall

(* The life of one job, with save_job and load_job_config called in        *)
(* between: setup_job is called until the caller holds a record.           *)
NextStore ==
    \/ Tick
    \/ FirstSetupCall
    \/ SubmitCall
    \/ CancelCall
    \/ CleanupCall
    \/ SaveCall
    \/ LoadCall

SpecStore == Init /\ [][NextStore]_vars

(* commands run one after the other through _execute_command *)
NextExec ==
    \/ Tick
    \/ ExecCall

SpecExec == Init /\ [][NextExec]_vars

(* commands issued and polled in any order while their processes run *)
NextCmd ==
    \/ Issue
    \/ Status
    \/ Poll
    \/ Produce
    \/ Exit
    \/ Break

SpecCmd == Init /\ [][NextCmd]_vars

(* the heartbeat thread from t.start() on, and a cancel at any moment *)
NextBeat ==
    \/ TimerTest
    \/ TimerCall
    \/ TimerWait
    \/ TimerCancel

(* the thread of the timer runs: each of its steps is taken in the end,    *)
(* the wait of line 36 by its timeout                                      *)
SpecBeat ==
    /\ Init
    /\ [][NextBeat]_vars
    /\ WF_vars(TimerTest) /\ WF_vars(TimerCall) /\ WF_vars(TimerWait)

(* ------------------------------ properties ----------------------------- *)

(* a step that is a call of op: Tick alone moves the clock *)
IsCall(op) == now' = now /\ last'.op = op

FourTs == {"setup_ts", "submit_ts", "start_ts", "end_ts"}

(* C1: submit on a record whose submit_ts is set raises, sends no sbatch,  *)
(* and leaves submit_ts and the scheduler job identifier as they were.     *)
C1_SecondSubmitRejected ==
    [][(IsCall("submit") /\ job_config.ts.submit_ts # None)
         => /\ Raised(last'.raised)
            /\ \A i \in 1..Len(last'.issued) : last'.issued[i].verb # "sbatch"
            /\ job_config'.ts.submit_ts = job_config.ts.submit_ts
            /\ job_config'.slurm = job_config.slurm]_vars

C1_Witness ==
    /\ last.op = "submit"
    /\ last.raised = Err("Exception", "guard")
    /\ job_config.ts.submit_ts # None
    /\ Has(job_config.slurm, "slurm_id")

(* C2: cancel on a record whose submit_ts is null raises, sends no         *)
(* scancel, and leaves the record and the saved record as they were.       *)
C2_CancelUnsubmittedRejected ==
    [][(IsCall("cancel") /\ job_config.ts.submit_ts = None)
         => /\ Raised(last'.raised)
            /\ last'.issued = <<>>
            /\ job_config' = job_config
            /\ files' = files
            /\ dirs' = dirs]_vars

C2_Witness ==
    /\ last.op = "cancel"
    /\ last.raised = Err("Exception", "guard")
    /\ job_config.ts.setup_ts # None
    /\ job_config.ts.submit_ts = None
    /\ job_config.job_dir \in DOMAIN files

(* C3: a cancel that returns leaves the four timestamps null and no        *)
(* scheduler job identifier, and that record is the one saved in the job   *)
(* directory.                                                              *)
C3_CancelClearsRecord ==
    (last.op = "cancel" /\ ~Raised(last.raised))
        => /\ \A k \in FourTs : job_config.ts[k] = None
           /\ ~Has(job_config.slurm, "slurm_id")
           /\ job_config.job_dir \in DOMAIN files
           /\ files[job_config.job_dir] = {json_dump(job_config)}

C3_Witness ==
    /\ last.op = "cancel"
    /\ ~Raised(last.raised)
    /\ last.issued # <<>>

(* C4: in every state, in the record held and in every record saved,       *)
(* submit_ts is non-null only if setup_ts is non-null.                     *)
C4_SubmitOnlyAfterSetup ==
    /\ job_config.ts.submit_ts # None => job_config.ts.setup_ts # None
    /\ \A d \in DOMAIN files : \A r \in files[d] :
           json_load(r).ts.submit_ts # None => json_load(r).ts.setup_ts # None

C4_Witness ==
    /\ last.op = "cleanup"
    /\ job_config.ts.submit_ts # None
    /\ job_config.ts.setup_ts # None

(* C5: in every state the record holds a scheduler job identifier if and   *)
(* only if its submit_ts is non-null.                                      *)
C5_SlurmIdIffSubmitted ==
    Has(job_config.slurm, "slurm_id") <=> job_config.ts.submit_ts # None

(* C6: a submit whose sbatch output parses to 'FAILED' or to '' raises,    *)
(* keeps the raw output in the record, and leaves submit_ts null.          *)
C6_SentinelSubmitFails ==
    (/\ last.op = "submit"
     /\ last.issued # <<>>
     /\ ~last.resp.exc /\ last.resp.err = <<>>
     /\ Len(split(last.resp.out, "\n")) >= 2
     /\ ParseSlurmId(last.resp.out) \in {<<"FAILED">>, <<>>})
        => /\ Raised(last.raised)
           /\ Has(job_config.slurm, "sbatch_ret")
           /\ job_config.slurm["sbatch_ret"] = last.resp.out
           /\ job_config.ts.submit_ts = None

C6_Witness ==
    /\ last.op = "submit"
    /\ last.resp.out = <<"FAILED", "\n">>
    /\ Raised(last.raised)
    /\ Has(job_config.slurm, "sbatch_ret")

(* the sbatch of the last call failed: it raised, or its output parsed to  *)
(* the failure sentinel or to the empty identifier                         *)
SbatchFailed(call) ==
    /\ call.op = "submit"
    /\ call.issued # <<>>
    /\ \/ call.resp.exc
       \/ call.resp.err # <<>>
       \/ /\ Len(split(call.resp.out, "\n")) >= 2
          /\ ParseSlurmId(call.resp.out) \in {<<"FAILED">>, <<>>}

(* sbatch answers with a job identifier and the record can be saved *)
SchedulerWorks(call) ==
    /\ ~call.resp.exc /\ call.resp.err = <<>>
    /\ Len(split(call.resp.out, "\n")) >= 2
    /\ ParseSlurmId(call.resp.out) \notin {<<"FAILED">>, <<>>}
    /\ call.sftp = "ok"

C8_FailedCancelKeepsRecord ==
    [][(/\ IsCall("cancel")
        /\ job_config.ts.submit_ts # None
        /\ (last'.resp.exc \/ last'.resp.err # <<>>))
         => /\ last'.raised.type =
                  (IF last'.resp.exc THEN "SSHException" ELSE "Exception")
            /\ job_config' = job_config
            /\ files' = files
            /\ job_config'.ts.submit_ts # None
            /\ Has(job_config'.slurm, "slurm_id")]_vars

C8_Witness ==
    /\ last.op = "cancel"
    /\ last.raised = Err("Exception", "scancel")
    /\ job_config.ts.submit_ts # None
    /\ job_config.job_dir \in DOMAIN files
    /\ files[job_config.job_dir] # {}

(* C9: a setup that fails after it made the job directory ends with the    *)
(* directory removed and raises the error it met first.                    *)
C9_FailedSetupRemovesDir ==
    (last.op = "setup" /\ last.created /\ Raised(last.orig))
        => /\ last.issued[1].arg \notin dirs
           /\ last.raised = last.orig

(* C10: cleanup, confirmed or unchecked, raises no state error whatever    *)
(* the record's timestamps, and when it returns the directory is gone and  *)
(* job_dir is empty.                                                       *)
C10_CleanupHasNoPrecondition ==
    (last.op = "cleanup" /\ (last.check => last.choices = <<"yes", "yes">>))
        => /\ last.raised # Err("Exception", "guard")
           /\ ~Raised(last.raised) => job_config.job_dir = None

(* C11: when the scancel sent by the cancel inside cleanup fails, cleanup   *)
(* does not raise that error: it sends the rm -r of the job directory and, *)
(* when it returns, job_dir is empty.                                      *)
C11_CleanupSwallowsCancelError ==
    (last.op = "cleanup" /\ last.orig.at = "scancel")
        => /\ last.raised.at # "scancel"
           /\ \E i \in 1..Len(last.issued) : last.issued[i].verb = "rm -r"
           /\ ~Raised(last.raised) => job_config.job_dir = None

(* C12: a cleanup whose rm -r fails raises that error and leaves job_dir   *)
(* as it was, the directory still there.                                   *)
C12_FailedRemovalKeepsJobDir ==
    [][(/\ IsCall("cleanup")
        /\ \E i \in 1..Len(last'.issued) : last'.issued[i].verb = "rm -r"
        /\ (last'.resp.exc \/ last'.resp.err # <<>>))
         => /\ last'.raised.type =
                  (IF last'.resp.exc THEN "SSHException" ELSE "Exception")
            /\ job_config'.job_dir = job_config.job_dir
            /\ job_config'.job_dir # None
            /\ dirs' = dirs]_vars

C12_Witness ==
    /\ last.op = "cleanup"
    /\ last.raised = Err("Exception", "rm")
    /\ job_config.job_dir # None
    /\ job_config.job_dir \in dirs

(* load_job_config of the identity, the listing and the SFTP read working *)
Reload(job_id, ds, fs) ==
    load_job_config(job_id, ds, fs, Response(FALSE, LsOutput(ds), <<>>, 0),
                    "ok")

(* C13: after a setup, submit or cancel that returns, loading the job by   *)
(* its identity returns a record with the timestamps, the scheduler job    *)
(* identifier and the job_dir of the record held.                          *)
C13_SavedMatchesRecord ==
    (last.op \in {"setup", "submit", "cancel"} /\ ~Raised(last.raised))
        => LET o == Reload(job_config.job_id, dirs, files)
           IN /\ ~Raised(o.raised)
              /\ o.jc.ts = job_config.ts
              /\ o.jc.job_dir = job_config.job_dir
              /\ Has(o.jc.slurm, "slurm_id") <=> Has(job_config.slurm, "slurm_id")
              /\ Has(job_config.slurm, "slurm_id")
                     => o.jc.slurm["slurm_id"] = job_config.slurm["slurm_id"]

C13_Witness ==
    /\ last.op = "submit"
    /\ ~Raised(last.raised)
    /\ Has(job_config.slurm, "slurm_id")
    /\ job_config.ts.submit_ts # None
    /\ job_config.job_dir \in DOMAIN files

(* C14: a save that returns, followed by a load of the same identity,      *)
(* yields the record saved, equal to the record before the save in every   *)
(* field but dump_ts, which holds the time of the save.                    *)
C14_SaveLoadRoundTrip ==
    [][/\ (IsCall("save") /\ ~Raised(last'.raised))
           => LET o == Reload(job_config.job_id, dirs', files')
              IN /\ ~Raised(o.raised)
                 /\ o.jc = [job_config EXCEPT
                                !.ts = Put(@, "dump_ts", strftime(now))]
                 /\ o.jc = job_config'
       /\ (/\ last.op = "save" /\ ~Raised(last.raised)
           /\ IsCall("load") /\ ~Raised(last'.raised)
           /\ job_config'.job_id = job_config.job_id)
           => job_config' = job_config
      ]_vars

C14_Witness ==
    /\ last.op = "save"
    /\ ~Raised(last.raised)
    /\ Has(job_config.slurm, "sbatch_ret")
    /\ Has(job_config.ts, "dump_ts")
    /\ files[job_config.job_dir] = {json_dump(job_config)}

(* C15: a save that fails, on its own or inside submit, cancel or cleanup, *)
(* leaves the record saved before loadable, and the same.                  *)
C15_FailedSaveKeepsSavedRecord ==
    [][(/\ now' = now
        /\ last'.op \in {"save", "submit", "cancel", "cleanup"}
        /\ last'.raised.at = "save"
        /\ ~Raised(Reload(job_config.job_id, dirs, files).raised))
         => Reload(job_config.job_id, dirs', files')
                = Reload(job_config.job_id, dirs, files)]_vars

(* C16: a load of an identity with no job directory, or with no            *)
(* job_config.json in it, raises a not-found error, returns no record and  *)
(* leaves the remote as it was.                                            *)
C16_LoadMissingIsNotFound ==
    [][(/\ IsCall("load")
        /\ ExecRaises(last'.resp) = None
        /\ last'.sftp = "ok"
        /\ \E job_name \in JobNames :
               /\ JobDir(job_name) \notin dirs
                     \/ JobDir(job_name) \notin DOMAIN files
               /\ LET o == load_job_config(job_name, dirs, files, last'.resp,
                                           last'.sftp)
                  IN last'.raised = o.raised /\ last'.orig = o.orig)
         => /\ last'.raised.type \in {"FileNotFoundError", "Exception"}
            /\ job_config' = job_config
            /\ dirs' = dirs
            /\ files' = files]_vars

(* C17: a command that exits with status 0 returns from _execute_command, *)
(* whatever it wrote to stderr.                                            *)
C17_ExitZeroIsSuccess ==
    (last.op = "exec" /\ ~last.resp.exc /\ last.resp.status = 0)
        => ~Raised(last.raised)

(* C18: a command that exits with a non-zero status makes _execute_command *)
(* raise, whatever it wrote to stdout and stderr.                          *)
C18_NonZeroExitRaises ==
    (last.op = "exec" /\ ~last.resp.exc /\ last.resp.status # 0)
        => Raised(last.raised)

(* a step that is poll(i, ...): a poll alone answers with op "poll" and    *)
(* leaves alone what the remote processes and the connection have done     *)
Polled(i) ==
    /\ reply'.op = "poll" /\ reply'.id = i
    /\ Len(commands') = Len(commands)
    /\ \A j \in 1..Len(commands) :
        /\ commands'[j].channel.todo_out = commands[j].channel.todo_out
        /\ commands'[j].channel.todo_err = commands[j].channel.todo_err
        /\ commands'[j].channel.exited = commands[j].channel.exited
        /\ commands'[j].channel.broken = commands[j].channel.broken

(* C19: once the status of a command is COMPLETE or FAILED, no step (a     *)
(* poll of it or of another command with any wait and max_bytes, an issue, *)
(* its process or the connection) changes its status, its stdout buffer or *)
(* its stderr buffer, and a poll of it raises nothing and returns the      *)
(* command exactly as it was.                                              *)
C19_TerminalIsFrozen ==
    [][\A i \in 1..Len(commands) :
          commands[i].status \in Terminal
            => /\ commands'[i].status = commands[i].status
               /\ commands'[i].stdout = commands[i].stdout
               /\ commands'[i].stderr = commands[i].stderr
               /\ Polled(i) => /\ commands'[i] = commands[i]
                               /\ reply'.raised = None]_vars

(* a terminal command was polled with wait=true and max_bytes = 1 after a  *)
(* second command was issued *)
C19_Witness ==
    /\ reply.op = "poll" /\ reply.id = 1
    /\ reply.before \in Terminal
    /\ reply.wait /\ reply.max_bytes = 1
    /\ Len(commands) = 2
    /\ commands[1].status = reply.before

IsPrefix(s, t) == Len(s) <= Len(t) /\ SubSeq(t, 1, Len(s)) = s

(* what the process of a command wrote or will write on a stream, in       *)
(* order: what was read, what is ready, what is yet to be written          *)
StreamOut(c) == c.stdout \o c.channel.ready_out \o c.channel.todo_out

(* C21: in every step the stdout buffer and the stderr buffer of every     *)
(* command extend what they were (nothing read is removed), and what was   *)
(* read, followed by what is still on the channel, is what the process     *)
(* writes, in its order (nothing reordered or duplicated); on stderr the   *)
(* one addition is the text of an I/O error that failed the command.       *)
C21_BuffersOnlyGrow ==
    [][\A i \in 1..Len(commands) :
          LET c == commands[i]
              d == commands'[i]
              rest == d.channel.ready_err \o d.channel.todo_err
          IN /\ IsPrefix(c.stdout, d.stdout)
             /\ IsPrefix(c.stderr, d.stderr)
             /\ StreamOut(d) = d.channel.proc.out
             /\ IF d.channel.broken /\ d.status = "FAILED"
                THEN \E n \in 0..Len(d.channel.proc.err) :
                        /\ d.stderr = SubSeq(d.channel.proc.err, 1, n)
                                        \o <<"I/O error">>
                        /\ rest = SubSeq(d.channel.proc.err, n + 1,
                                         Len(d.channel.proc.err))
                ELSE d.stderr \o rest = d.channel.proc.err]_vars

(* stdout was read in two polls, the second with max_bytes = 1 while the   *)
(* process was still running, and stderr was read as well                  *)
C21_Witness ==
    /\ reply.op = "poll" /\ reply.id \in 1..Len(commands)
    /\ reply.max_bytes = 1 /\ reply.before = "RUNNING"
    /\ ~commands[reply.id].channel.exited
    /\ commands[reply.id].stdout = <<"h", "i">>
    /\ commands[reply.id].stderr = <<"e">>

(* the channel of c is open, answers, and has nothing to read *)
OpenAndSilent(c) ==
    /\ ~c.channel.exited /\ ~c.channel.broken
    /\ c.channel.ready_out = <<>> /\ c.channel.ready_err = <<>>

C23_FinishedHoldsAllOutput ==
    \A i \in 1..Len(commands) :
        (commands[i].status \in Terminal /\ ~commands[i].channel.broken)
          => /\ commands[i].stdout = commands[i].channel.proc.out
             /\ commands[i].stderr = commands[i].channel.proc.err
             /\ commands[i].channel.ready_out = <<>>
             /\ commands[i].channel.ready_err = <<>>

(* the first poll of a command came after its process had written two      *)
(* bytes and finished: with max_bytes = 1 it read both *)
C23_Witness ==
    /\ reply.op = "poll" /\ reply.id \in 1..Len(commands)
    /\ reply.max_bytes = 1 /\ reply.before = "STARTED"
    /\ commands[reply.id].status = "COMPLETE"
    /\ ~commands[reply.id].channel.broken
    /\ commands[reply.id].stdout = <<"h", "i">>
    /\ commands[reply.id].stderr = <<"e">>

(* C24: poll(i, wait=false, max_bytes = n) with n >= 0 of a command whose  *)
(* channel is open and answers, with data ready, appends at most n bytes   *)
(* to the stdout buffer and at most n bytes to the stderr buffer, and the  *)
(* command is RUNNING after it.                                            *)
C24_ReadIsBoundedByMaxBytes ==
    [][\A i \in 1..Len(commands) :
          (/\ Polled(i) /\ ~reply'.wait /\ reply'.max_bytes >= 0
           /\ ~commands[i].channel.exited /\ ~commands[i].channel.broken
           /\ \/ commands[i].channel.ready_out # <<>>
              \/ commands[i].channel.ready_err # <<>>)
            => /\ Len(commands'[i].stdout)
                    <= Len(commands[i].stdout) + reply'.max_bytes
               /\ Len(commands'[i].stderr)
                    <= Len(commands[i].stderr) + reply'.max_bytes
               /\ commands'[i].status = "RUNNING"]_vars

(* a poll with wait=false and max_bytes = 1 read one byte of stdout and    *)
(* one of stderr, and left the second byte of stdout on the channel        *)
C24_Witness ==
    /\ reply.op = "poll" /\ reply.id \in 1..Len(commands)
    /\ ~reply.wait /\ reply.max_bytes = 1 /\ reply.before = "STARTED"
    /\ commands[reply.id].status = "RUNNING"
    /\ commands[reply.id].stdout = <<"h">>
    /\ commands[reply.id].stderr = <<"e">>
    /\ commands[reply.id].channel.ready_out = <<"i">>

(* C25: a poll of a non-terminal command whose channel raises an I/O error *)
(* leaves the command FAILED with the error text appended to its stderr    *)
(* buffer; the poll returns when error raising is disabled and raises      *)
(* CommandFailure when it is enabled.                                      *)
C25_IOErrorFailsCommand ==
    [][\A i \in 1..Len(commands) :
          (/\ Polled(i)
           /\ commands[i].status \notin Terminal
           /\ commands[i].channel.broken)
            => /\ commands'[i].status = "FAILED"
               /\ commands'[i].stderr = commands[i].stderr \o <<"I/O error">>
               /\ commands'[i].stdout = commands[i].stdout
               /\ reply'.raised =
                    IF reply'.error THEN "CommandFailure" ELSE None]_vars

(* the connection dropped under two running commands: the poll of the      *)
(* first left it FAILED, the poll of the second, with error raising        *)
(* enabled, raised *)
C25_Witness ==
    /\ Len(commands) = 2
    /\ commands[1].channel.broken /\ commands[1].status = "FAILED"
    /\ commands[1].stdout = <<"h">>
    /\ commands[1].stderr = <<"I/O error">>
    /\ reply.op = "poll" /\ reply.id = 2 /\ reply.error
    /\ reply.before = "RUNNING" /\ reply.raised = "CommandFailure"
    /\ commands[2].channel.broken /\ commands[2].status = "FAILED"
    /\ commands[2].stderr = <<"e", "I/O error">>

(* C26: status(id) and poll(id, ...) with an identity that was never       *)
(* issued (0, the next identity, or a later one) raise NotFoundError and   *)
(* leave every command of the registry as it was; with an issued identity  *)
(* they never raise it.                                                    *)
C26_UnknownIdIsNotFound ==
    [][(reply' # reply /\ reply'.op \in {"status", "poll"})
         => IF reply'.id \in 1..Len(commands)
            THEN reply'.raised # "NotFoundError"
            ELSE /\ reply'.raised = "NotFoundError"
                 /\ commands' = commands]_vars

(* the next identity was polled while the one command of the registry was  *)
(* running *)
C26_Witness ==
    /\ reply.op = "poll" /\ reply.raised = "NotFoundError"
    /\ Len(commands) = 1 /\ reply.id = 2
    /\ commands[1].status = "RUNNING"

(* C28: no step changes the identity of a command, and a command added to  *)
(* the registry has an integer identity greater than the identity of every *)
(* command issued before it, so that no two commands share one.            *)
C28_IdentitiesIncrease ==
    [][/\ \A i \in 1..Len(commands) : commands'[i].id = commands[i].id
       /\ Len(commands') > Len(commands)
            => /\ Len(commands') = Len(commands) + 1
               /\ commands'[Len(commands')].id \in Int
               /\ reply'.id = commands'[Len(commands')].id
               /\ \A i \in 1..Len(commands) :
                     commands'[Len(commands')].id > commands[i].id
       /\ \A i, j \in 1..Len(commands') :
            i # j => commands'[i].id # commands'[j].id]_vars

(* a second command was issued after the first had been polled twice *)
C28_Witness ==
    /\ reply.op = "issue" /\ reply.raised = None
    /\ Len(commands) = 2
    /\ commands[1].id = 1 /\ commands[2].id = 2
    /\ commands[1].status = "RUNNING"
    /\ commands[1].stdout = <<"h", "i">>
    /\ commands[1].channel.ready_err = <<"e">>

(* C27: when exec_command cannot open a channel, _execute_command raises   *)
(* the SSH error to its caller: the command was sent once and nothing is   *)
(* returned in place of the error.                                         *)
C27_TransportErrorPropagates ==
    (last.op = "exec" /\ last.resp.exc)
      => /\ last.raised = Err("SSHException", "exec")
         /\ last.orig = last.raised
         /\ Len(last.issued) = 1

(* showq was called while the connection was down *)
C27_Witness ==
    /\ last.op = "exec" /\ last.resp = SSHDown
    /\ last.raised.type = "SSHException"
    /\ last.issued = <<Cmd("showq -u", "user")>>

(* C29: a cleanup of a record whose submit_ts is set that sends the rm -r  *)
(* of the job directory has sent, earlier in the same call, the scancel of *)
(* the record's scheduler identifier, whatever its check flag is.          *)
C29_CleanupCancelsBeforeRemoving ==
    [][(IsCall("cleanup") /\ job_config.ts.submit_ts # None)
         => \A j \in 1..Len(last'.issued) :
               last'.issued[j].verb = "rm -r"
                 => /\ Has(job_config.slurm, "slurm_id")
                    /\ \E i \in 1..(j - 1) :
                          last'.issued[i] =
                            Cmd("scancel", Join(job_config.slurm["slurm_id"]))]_vars

(* C30 as stated: a setup that returns never has the identity of the       *)
(* record that the setup before it returned.                               *)
C30_NoTwoSetupsShareIdentity ==
    [][(IsCall("setup") /\ ~Raised(last'.raised))
         => job_config'.job_id # job_config.job_id]_vars

(* C30, amended: a setup whose job directory exists already raises at its  *)
(* mkdir, sends no rm -rf, and leaves the directories, the files in them   *)
(* and the record held as they were; a setup that returns has made a       *)
(* directory that did not exist, named after its identity, so no two jobs  *)
(* whose directories exist share an identity or a directory.               *)
C30_CollidingSetupFails ==
    [][IsCall("setup")
         => /\ (Len(last'.issued) >= 1 /\ last'.issued[1].arg \in dirs)
                 => /\ last'.raised.at = "mkdir"
                    /\ Len(last'.issued) = 1
                    /\ ~last'.created
                    /\ dirs' = dirs
                    /\ files' = files
                    /\ job_config' = job_config
            /\ ~Raised(last'.raised)
                 => /\ job_config'.job_dir = JobDir(job_config'.job_id)
                    /\ job_config'.job_dir \notin dirs
                    /\ job_config'.job_dir \in dirs']_vars

(* a second setup in the second of the first was refused at its mkdir: the *)
(* directory of the first job and the record saved in it are still there   *)
C30_Witness ==
    /\ last.op = "setup" /\ last.raised.at = "mkdir"
    /\ last.issued = <<Cmd("mkdir", job_config.job_dir)>>
    /\ job_config.job_dir \in dirs
    /\ job_config.job_dir \in DOMAIN files
    /\ files[job_config.job_dir] = {json_dump(job_config)}
    /\ job_config.ts.setup_ts = strftime(now)

(* the record held went through a cleanup that removed its directory *)
CleanedUp(jc) == jc.job_id # None /\ jc.job_dir = None

(* C31: a submit or a cancel on a record whose directory a cleanup has     *)
(* removed, job_dir emptied, raises and sends neither sbatch nor scancel.  *)
C31_CleanedUpRecordIsDead ==
    [][((IsCall("submit") \/ IsCall("cancel")) /\ CleanedUp(job_config))
         => /\ Raised(last'.raised)
            /\ \A i \in 1..Len(last'.issued) :
                  last'.issued[i].verb \notin {"sbatch", "scancel"}]_vars

(* C32: a cancel that returns leaves setup_ts empty; while the record held *)
(* has no setup_ts, a submit on it is refused by the guard, sends no       *)
(* sbatch and changes nothing, and no call but a setup gives the record a  *)
(* setup_ts or a submit_ts again.                                          *)
C32_CancelledNeedsNewSetup ==
    [][/\ (IsCall("cancel") /\ ~Raised(last'.raised))
            => job_config'.ts.setup_ts = None
       /\ (HoldsJob /\ job_config.ts.setup_ts = None)
            => /\ IsCall("submit")
                    => /\ last'.raised = Err("Exception", "guard")
                       /\ last'.issued = <<>>
                       /\ job_config' = job_config
               /\ ~IsCall("setup")
                    => /\ job_config'.ts.setup_ts = None
                       /\ job_config'.ts.submit_ts = None]_vars

(* a submit was refused on a cancelled record whose directory and saved    *)
(* record are still there *)
C32_Witness ==
    /\ last.op = "submit" /\ last.raised = Err("Exception", "guard")
    /\ HoldsJob
    /\ job_config.ts.setup_ts = None
    /\ ~Has(job_config.slurm, "slurm_id")
    /\ job_config.job_dir \in dirs
    /\ files[job_config.job_dir] = {json_dump(job_config)}

(* C33: a cleanup with check set in which a prompt is answered with        *)
(* anything but 'yes' sends no rm -r, leaves job_dir and the directories   *)
(* as they were and raises nothing; when the prompt declined is the first  *)
(* (the record has a submit_ts) it sends no scancel either and the record  *)
(* is unchanged.                                                           *)
C33_DeclinedCleanupRemovesNothing ==
    [][(IsCall("cleanup") /\ last'.check /\ CleanupGuard(job_config))
         => LET first == /\ job_config.ts.submit_ts # None
                         /\ last'.choices[1] # "yes"
                second == last'.choices[2] # "yes"
            IN /\ (first \/ second)
                    => /\ \A i \in 1..Len(last'.issued) :
                             last'.issued[i].verb # "rm -r"
                       /\ job_config'.job_dir = job_config.job_dir
                       /\ dirs' = dirs
               /\ first
                    => /\ last'.issued = <<>>
                       /\ ~Raised(last'.raised)
                       /\ job_config' = job_config
                       /\ files' = files]_vars

(* the cancel was confirmed and made, the removal was declined: the job is *)
(* cancelled and its directory is still there *)
C33_Witness ==
    /\ last.op = "cleanup" /\ last.check
    /\ last.choices = <<"yes", "no">>
    /\ Len(last.issued) = 1 /\ last.issued[1].verb = "scancel"
    /\ ~Raised(last.raised)
    /\ job_config.ts.setup_ts = None
    /\ job_config.job_dir \in dirs

(* C34: a heartbeat whose get_jobs raises lets no exception out and adds   *)
(* nothing to stats, a heartbeat whose get_jobs returns appends one entry, *)
(* so stats has one entry per call that returned and the thread is never   *)
(* ended by an exception; and as long as the timer is not cancelled the    *)
(* loop goes on to the next heartbeat call.                                *)
C34_HeartbeatLoopSurvives ==
    /\ [][thread'.calls # thread.calls
            => /\ thread'.calls = thread.calls + 1
               /\ thread'.pc = "wait"
               /\ stats' = IF thread'.out.raises THEN stats
                           ELSE Append(stats, thread'.out.elapsed)]_vars
    /\ [](Len(stats) = thread.returned /\ thread.pc # "dead")
    /\ \A n \in 0..(MaxHeartbeats - 1) :
          (thread.calls = n) ~> (thread.calls = n + 1 \/ finished)

(* a heartbeat call whose get_jobs raised was followed by calls that       *)
(* returned: two entries for three calls, the timer still running          *)
C34_Witness ==
    /\ thread.calls = 3 /\ Len(stats) = 2
    /\ ~thread.out.raises
    /\ thread.pc = "wait" /\ ~finished

====
